---- MODULE Spec2Model ----
(***************************************************************************)
(* Model of apps/api/ml/train_insider_model.py: the loader, the trainer,   *)
(* the rule extractor, the exporter and main(), which runs the trade-level *)
(* pipeline and then the wallet-level pipeline in one synchronous pass.    *)
(*                                                                         *)
(* Library calls (pandas, scikit-learn, xgboost, skl2onnx) are modelled by *)
(* the outcomes they can produce: a result chosen with \E, or an exception *)
(* that propagates.  Real numbers are integers or num/den pairs.           *)
(***************************************************************************)
EXTENDS Integers, Sequences, FiniteSets, TLC

VARIABLES
    argv,               \* parsed command line: which of --trades / --wallets is given
    installed,          \* whether "from skl2onnx import ..." succeeds in this environment
    disk,               \* the input files: per pipeline "nofile", "unreadable" or a table
    pc,                 \* position of main()
    cur,                \* pipeline block main() is in: "trades" or "wallets"
    available_features, \* load_and_preprocess: the local list built at line 85
    X, y, features,     \* main(): the values load_and_preprocess returned
    y_train, y_test,    \* train_xgboost: label vectors of the split
    scale_pos_weight,   \* train_xgboost: the class weight, as [num, den]
    model,              \* the fitted classifier ([feature_importances_ |-> ...])
    feature_names,      \* the list train_xgboost returned / the rule extractor's input
    top_n,              \* extract_top_rules: its top_n argument
    rules,              \* extract_top_rules: the list it returned
    dirs,               \* directories created by this run
    files,              \* files written by this run: path |-> content
    out,                \* what was printed, in order: <<tag, pipeline, names>>
    calls,              \* the functions invoked, in order: <<function, pipeline>>
    exc                 \* the unhandled exception that ended the run: its type, the
                        \* function that raised it and the pipeline it was raised in

vars == <<argv, installed, disk, pc, cur, available_features, X, y, features, y_train, y_test,
          scale_pos_weight, model, feature_names, top_n, rules, dirs, files, out,
          calls, exc>>

----------------------------------------------------------------------------
(* Bounds of the model *)

\* an input table has at most MinPositives + MaxExtraPos positive rows
MaxExtraPos == 0
\* an input table has at most MaxNeg negative rows
MaxNeg == 2
\* a feature importance score is one of 0..MaxImp
MaxImp == 1
\* extract_top_rules is applied with top_n in 0..MaxTopN
MaxTopN == 3
\* the trainer, taken alone, is applied to up to MaxLabels rows of each class
MaxLabels == 10
\* the rule extractor, taken alone, is applied to importance scores in 0..MaxRuleImp
MaxRuleImp == 2

(* Program constants *)

\* main(): "if sum(y) >= 10"
MinPositives == 10
\* export_model_for_js: extract_top_rules(model, feature_names, top_n=10)
ExportTopN == 10

TRADE_FEATURES ==
    << "wallet_age_days", "wallet_total_trades", "wallet_total_volume",
       "wallet_markets_traded", "wallet_market_concentration",
       "wallet_avg_trade_size", "wallet_win_rate", "trade_size_usd",
       "trade_size_vs_wallet_avg", "odds_at_trade", "is_buying_underdog",
       "hours_to_resolution", "is_final_24h", "position_vs_liquidity",
       "is_new_market_for_wallet", "is_single_market_wallet" >>

WALLET_FEATURES ==
    << "age_days", "total_trades", "total_volume", "markets_traded",
       "market_concentration", "avg_trade_size", "win_rate",
       "low_odds_win_rate", "low_odds_wins", "low_odds_attempts",
       "avg_hours_to_resolution", "final_24h_trade_rate",
       "final_24h_win_rate", "single_market_focus", "contrarian_rate" >>

\* the default of load_and_preprocess's target parameter
Target == "is_suspicious"

Pipelines == {"trades", "wallets"}

\* main(): the feature list each pipeline passes to load_and_preprocess
PipelineFeatures(k) == IF k = "trades" THEN TRADE_FEATURES ELSE WALLET_FEATURES

\* main(): f"{output_dir}/trade_model" and f"{output_dir}/wallet_model"
OutputDir(k) == IF k = "trades" THEN "trade_model" ELSE "wallet_model"

----------------------------------------------------------------------------
(* Python helpers *)

Max(a, b) == IF a >= b THEN a ELSE b
Min(a, b) == IF a <= b THEN a ELSE b

\* set(s) of a list
ToSet(s) == {s[i] : i \in DOMAIN s}

\* the builtin sum() of a list of numbers
RECURSIVE Sum(_)
Sum(s) == IF s = <<>> THEN 0 ELSE s[1] + Sum(Tail(s))

\* a label vector with p ones and n zeros (row order plays no part below)
Labels(p, n) == [i \in 1..(p + n) |-> IF i <= p THEN 1 ELSE 0]

\* [f for f in s if f in keep]
RECURSIVE Filter(_, _)
Filter(s, keep) ==
    IF s = <<>> THEN <<>>
    ELSE IF s[1] \in keep THEN <<s[1]>> \o Filter(Tail(s), keep)
         ELSE Filter(Tail(s), keep)

----------------------------------------------------------------------------
(* The inputs of a run *)

\* the columns a bounded input table may carry: the target, columns of the
\* pipeline's feature list and, for the wallets, a column outside that list
ColumnPool(k) ==
    IF k = "trades"
    THEN {Target, "wallet_total_trades", "wallet_age_days"}
    ELSE {Target, "low_odds_win_rate", "wallet_age_days"}

\* the numbers of positive rows of a bounded input table: none, and the
\* counts around the threshold of main()
PositiveCounts == {0} \cup ((MinPositives - 1)..(MinPositives + MaxExtraPos))

NoFile == [kind |-> "nofile", columns |-> {}, pos |-> 0, neg |-> 0]
Unreadable == [kind |-> "unreadable", columns |-> {}, pos |-> 0, neg |-> 0]

\* a CSV file as pd.read_csv(...).fillna(0) sees it: its columns, and its rows
\* counted by label (without the target column the rows carry no label)
Tables(k) ==
    {t \in [kind : {"table"}, columns : SUBSET ColumnPool(k),
            pos : PositiveCounts, neg : 0..MaxNeg] :
        Target \notin t.columns => t.pos = 0}

\* Path(args.<k>).exists()
PathExists(k) == disk[k].kind # "nofile"

\* main(): "if args.<k> and Path(args.<k>).exists()"
PipelineRuns(k) == argv[k] /\ PathExists(k)

----------------------------------------------------------------------------
(* load_and_preprocess *)

\* the loader without its check of the target column
TargetCheckSkipped(df) == FALSE

\* "if target not in df.columns: raise ValueError"
TargetMissing(df) == Target \notin df.columns

\* available_features = [f for f in features if f in df.columns]
AvailableFeatures(feats, df) == Filter(feats, df.columns)

\* missing_features = set(features) - set(available_features)
MissingFeatures(feats, avail) == ToSet(feats) \ ToSet(avail)

\* y = df[target].values
LabelVector(df) == Labels(df.pos, df.neg)

\* the print of line 93 evaluates 100*sum(y)/len(y)
LoadSummaryRaises(yy) == Len(yy) = 0

----------------------------------------------------------------------------
(* train_xgboost *)

\* sizes of the test partition for n rows: ceil(0.2 * n); 0.2 * n is a binary
\* float, so for a multiple of 5 the ceiling may come out one higher
TestSizes(n) ==
    {(n + 4) \div 5} \cup (IF n % 5 = 0 THEN {(n \div 5) + 1} ELSE {})

\* train_test_split(X, y, test_size=0.2, random_state=42, stratify=y): the
\* splits the library may produce, as the two label vectors.  Which rows go
\* where is the library's choice; each class keeps its share up to rounding.
\* The empty set: the library raises ValueError (no rows for a partition, a
\* class with a single member, fewer rows in a partition than classes).
TrainTestSplit(yy) ==
    LET n       == Len(yy)
        pos     == Sum(yy)
        neg     == n - pos
        classes == (IF pos > 0 THEN 1 ELSE 0) + (IF neg > 0 THEN 1 ELSE 0)
    IN  IF n = 0 \/ pos = 1 \/ neg = 1 THEN {}
        ELSE {[train |-> Labels(pt, nt - pt), test |-> Labels(pos - pt, neg - (nt - pt))] :
                 <<nt, pt>> \in
                   {w \in (0..n) \X (0..pos) :
                       /\ (n - w[1]) \in TestSizes(n)
                       /\ w[1] >= classes
                       /\ (n - w[1]) >= classes
                       /\ w[1] - w[2] \in 0..neg
                       /\ w[2] * n >= pos * w[1] - (n - 1)
                       /\ w[2] * n <= pos * w[1] + (n - 1)}}

\* the class weight computed from the full label vector
WeightLabelsFull(yy, ytrain, ytest) == yy

\* the labels the class weight is computed from: the training split
WeightLabels(yy, ytrain, ytest) == ytrain

\* scale_pos_weight = (len(y_train) - sum(y_train)) / max(sum(y_train), 1),
\* kept as numerator and denominator
ScalePosWeight(lab) == [num |-> Len(lab) - Sum(lab), den |-> Max(Sum(lab), 1)]

\* model.feature_importances_ of a classifier fitted on ncols columns: one score
\* per column
Importances(ncols) == [1..ncols -> 0..MaxImp]

----------------------------------------------------------------------------
(* extract_top_rules and get_feature_description *)

\* the descriptions dict of get_feature_description
Descriptions ==
    [f \in {"wallet_age_days", "wallet_markets_traded", "wallet_market_concentration",
            "trade_size_usd", "odds_at_trade", "is_buying_underdog",
            "hours_to_resolution", "is_final_24h", "is_new_market_for_wallet",
            "is_single_market_wallet", "low_odds_win_rate", "final_24h_trade_rate"} |->
        CASE f = "wallet_age_days" -> "Days since wallet first seen"
          [] f = "wallet_markets_traded" -> "Number of unique markets traded"
          [] f = "wallet_market_concentration" -> "How focused on few markets (0-1)"
          [] f = "trade_size_usd" -> "Size of trade in USD"
          [] f = "odds_at_trade" -> "Market odds when trading"
          [] f = "is_buying_underdog" -> "Betting on <30% outcome"
          [] f = "hours_to_resolution" -> "Hours until market resolution"
          [] f = "is_final_24h" -> "Trading in final 24 hours"
          [] f = "is_new_market_for_wallet" -> "First trade in this market"
          [] f = "is_single_market_wallet" -> "Wallet trades <= 3 markets total"
          [] f = "low_odds_win_rate" -> "Win rate on low-odds bets"
          [] f = "final_24h_trade_rate" -> "Fraction of trades in final 24h"]

\* descriptions.get(feature, feature)
get_feature_description(feature) ==
    IF feature \in DOMAIN Descriptions THEN Descriptions[feature] ELSE feature

\* zip(names, values): pairs up to the shorter of the two
Zip(names, values) ==
    [i \in 1..Min(Len(names), Len(values)) |-> <<names[i], values[i]>>]

\* dict(pairs): a later pair replaces the value of an equal key
Dict(pairs) ==
    [k \in {pairs[i][1] : i \in DOMAIN pairs} |->
        pairs[CHOOSE i \in DOMAIN pairs :
                  /\ pairs[i][1] = k
                  /\ \A j \in DOMAIN pairs : pairs[j][1] = k => j <= i][2]]

\* dict(pairs).items(): the keys in the order of their first insertion
RECURSIVE KeysInOrder(_)
KeysInOrder(pairs) ==
    IF pairs = <<>> THEN <<>>
    ELSE LET front == KeysInOrder(SubSeq(pairs, 1, Len(pairs) - 1))
             k     == pairs[Len(pairs)][1]
         IN  IF k \in ToSet(front) THEN front ELSE Append(front, k)

Items(pairs) ==
    LET d == Dict(pairs)
        ks == KeysInOrder(pairs)
    IN  [i \in DOMAIN ks |-> <<ks[i], d[ks[i]]>>]

\* the sort key without its minus sign: ascending importance
RuleOrderAscending(a, b) == a <= b

\* the sort key of sorted(..., key=lambda x: -x[1]): a goes before b
RuleOrder(a, b) == a >= b

\* put item x into a list sorted by RuleOrder, behind its equals (sorted() is stable)
RECURSIVE InsertSorted(_, _)
InsertSorted(s, x) ==
    IF s = <<>> THEN <<x>>
    ELSE IF RuleOrder(s[1][2], x[2]) THEN <<s[1]>> \o InsertSorted(Tail(s), x)
         ELSE <<x>> \o s

\* sorted(items, key=lambda x: -x[1])
RECURSIVE SortedByImportance(_)
SortedByImportance(items) ==
    IF items = <<>> THEN <<>>
    ELSE InsertSorted(SortedByImportance(SubSeq(items, 1, Len(items) - 1)),
                      items[Len(items)])

\* s[:n] for n >= 0
Take(s, n) == SubSeq(s, 1, Min(n, Len(s)))

extract_top_rules(m, names, n) ==
    LET sorted_features ==
            Take(SortedByImportance(Items(Zip(names, m.feature_importances_))), n)
    IN  [i \in DOMAIN sorted_features |->
            [feature     |-> sorted_features[i][1],
             importance  |-> sorted_features[i][2],
             description |-> get_feature_description(sorted_features[i][1])]]

----------------------------------------------------------------------------
(* export_model_for_js *)

\* the model_info dict
ModelInfo(m, names) ==
    [features           |-> names,
     n_features         |-> Len(names),
     model_type         |-> "xgboost",
     threshold          |-> "0.5",
     feature_importance |-> Dict(Zip(names, m.feature_importances_))]

\* what the optional ONNX step may do: raise ImportError at the import of
\* skl2onnx when it is not installed; otherwise finish, or raise in
\* convert_sklearn, at open() or at f.write()
OnnxOutcomes(inst) ==
    IF inst THEN {"saved", "ConvertError", "OpenError", "WriteError"} ELSE {"ImportError"}

\* the ONNX step without its except clause
ExportCatchesNothing(o) == FALSE

\* "except ImportError": the failures of the ONNX step the exporter handles
ExportCatches(o) == o = "ImportError"

\* the ONNX step leaves insider_model.onnx behind once open(..., 'wb') succeeded
OnnxFileCreated(o) == o \in {"saved", "WriteError"}

Write(fs, path, content) ==
    [p \in DOMAIN fs \cup {path} |-> IF p = path THEN content ELSE fs[p]]

MandatoryArtifacts == {"insider_model.joblib", "model_info.json", "decision_rules.json"}
OnnxArtifact == "insider_model.onnx"

----------------------------------------------------------------------------
(* main() *)

\* where main() goes on after the block of pipeline k
AfterPipeline(k) == IF k = "trades" THEN "wallets_check" ELSE "banner"

\* the threshold test off by one
EnoughPositivesOffByOne(yy) == Sum(yy) >= MinPositives - 1

\* main(): "if sum(y) >= 10"
EnoughPositives(yy) == Sum(yy) >= MinPositives

\* the trainer returning only the first feature name
TrainerReturnsFirstOnly(names) == Take(names, 1)

\* train_xgboost: "return model, feature_names"
TrainerReturns(names) == names

\* main() recording a pipeline's exception and going on with what follows
PropagateSwallowed(e, fn) ==
    /\ exc' = [type |-> e, raised_in |-> fn, pipeline |-> cur]
    /\ pc' = AfterPipeline(cur)

\* main() has no try/except: an exception raised below it ends the run
Propagate(e, fn) ==
    /\ exc' = [type |-> e, raised_in |-> fn, pipeline |-> cur]
    /\ pc' = "raised"

NoException == [type |-> "none", raised_in |-> "", pipeline |-> ""]

Event(name, k) == <<name, k>>
Line(tag, k, names) == <<tag, k, names>>

NoTable == [rows |-> 0, cols |-> 0]
NoWeight == [num |-> 0, den |-> 1]
NoModel == [feature_importances_ |-> <<>>]
NoFiles == [p \in {} |-> <<>>]

\* the locals, the file system and the log before anything ran
FreshLoader == available_features = <<>> /\ X = NoTable /\ y = <<>> /\ features = <<>>

FreshTrainer ==
    /\ y_train = <<>> /\ y_test = <<>>
    /\ scale_pos_weight = NoWeight
    /\ model = NoModel
    /\ feature_names = <<>>

FreshExporter == top_n = ExportTopN /\ rules = <<>> /\ dirs = {} /\ files = NoFiles

FreshLog == cur = "trades" /\ out = <<>> /\ calls = <<>> /\ exc = NoException

NoInputs == [k \in Pipelines |-> NoFile]

Init ==
    /\ argv \in [Pipelines -> BOOLEAN]
    /\ installed \in BOOLEAN
    /\ disk \in {d \in [Pipelines -> {NoFile, Unreadable} \cup Tables("trades") \cup Tables("wallets")] :
                    \A k \in Pipelines :
                        /\ d[k].kind = "table" => d[k] \in Tables(k)
                        /\ ~argv[k] => d[k] = NoFile}
    /\ pc = "trades_check"
    /\ FreshLoader /\ FreshTrainer /\ FreshExporter /\ FreshLog

\* main(): "if args.<k> and Path(args.<k>).exists():" and the header it prints
Begin(k) ==
    /\ pc = (IF k = "trades" THEN "trades_check" ELSE "wallets_check")
    /\ IF PipelineRuns(k)
       THEN /\ cur' = k
            /\ out' = Append(out, Line("header", k, {}))
            /\ pc' = "load"
       ELSE /\ pc' = AfterPipeline(k)
            /\ UNCHANGED <<cur, out>>
    /\ UNCHANGED <<argv, installed, disk, available_features, X, y, features, y_train, y_test,
                   scale_pos_weight, model, feature_names, top_n, rules, dirs, files,
                   calls, exc>>

\* X, y, features, df = load_and_preprocess(args.<cur>, <features of cur>)
Load ==
    /\ pc = "load"
    /\ LET df      == disk[cur]
           feats   == PipelineFeatures(cur)
           avail   == AvailableFeatures(feats, df)
           missing == MissingFeatures(feats, avail)
           yy      == LabelVector(df)
           called  == Append(calls, Event("load_and_preprocess", cur))
           log0    == Append(out, Line("Loading", cur, {}))
           log1    == IF missing # {}
                      THEN Append(log0, Line("Warning: Missing features", cur, missing))
                      ELSE log0
       IN  CASE df.kind = "unreadable" ->
                  /\ calls' = called
                  /\ out' = log0
                  /\ Propagate("ParserError", "load_and_preprocess")
                  /\ UNCHANGED <<available_features, X, y, features>>
             [] df.kind # "unreadable" /\ TargetMissing(df) ->
                  /\ calls' = called
                  /\ out' = log0
                  /\ Propagate("ValueError", "load_and_preprocess")
                  /\ UNCHANGED <<available_features, X, y, features>>
             [] df.kind # "unreadable" /\ ~TargetMissing(df) /\ LoadSummaryRaises(yy) ->
                  /\ calls' = Append(called, Event("load:select", cur))
                  /\ available_features' = avail
                  /\ out' = log1
                  /\ Propagate("ZeroDivisionError", "load_and_preprocess")
                  /\ UNCHANGED <<X, y, features>>
             [] OTHER ->
                  /\ calls' = Append(Append(called, Event("load:select", cur)),
                                     Event("load:return", cur))
                  /\ available_features' = avail
                  /\ out' = Append(log1, Line("Loaded", cur, {}))
                  /\ X' = [rows |-> Len(yy), cols |-> Len(avail)]
                  /\ y' = yy
                  /\ features' = avail
                  /\ pc' = "check_positives"
                  /\ exc' = exc
    /\ UNCHANGED <<argv, installed, disk, cur, y_train, y_test, scale_pos_weight, model,
                   feature_names, top_n, rules, dirs, files>>

\* main(): "if sum(y) >= 10: ... else: print(Not enough positive samples ...)"
CheckPositives ==
    /\ pc = "check_positives"
    /\ IF EnoughPositives(y)
       THEN pc' = "train" /\ out' = out
       ELSE /\ pc' = AfterPipeline(cur)
            /\ out' = Append(out, Line("Not enough positive samples", cur, {}))
    /\ UNCHANGED <<argv, installed, disk, cur, available_features, X, y, features, y_train, y_test,
                   scale_pos_weight, model, feature_names, top_n, rules, dirs, files,
                   calls, exc>>

\* model, feature_names = train_xgboost(X, y, features)
Train ==
    /\ pc = "train"
    /\ LET called == Append(calls, Event("train_xgboost", cur))
       IN  IF TrainTestSplit(y) = {}
           THEN /\ calls' = called
                /\ Propagate("ValueError", "train_xgboost")
                /\ UNCHANGED <<y_train, y_test, scale_pos_weight, model, feature_names, out>>
           ELSE \E s \in TrainTestSplit(y) :
                  /\ y_train' = s.train
                  /\ y_test' = s.test
                  /\ scale_pos_weight' = ScalePosWeight(WeightLabels(y, s.train, s.test))
                  /\ \/ \* fitting, evaluation or cross-validation raises
                        /\ calls' = called
                        /\ out' = Append(out, Line("Training XGBoost", cur, {}))
                        /\ Propagate("XGBoostError", "train_xgboost")
                        /\ UNCHANGED <<model, feature_names>>
                     \/ \E imp \in Importances(X.cols) :
                          /\ model' = [feature_importances_ |-> imp]
                          /\ feature_names' = TrainerReturns(features)
                          /\ calls' = Append(called, Event("train:return", cur))
                          /\ out' = Append(Append(out, Line("Training XGBoost", cur, {})),
                                           Line("Feature Importance", cur, {}))
                          /\ pc' = "export"
                          /\ exc' = exc
    /\ UNCHANGED <<argv, installed, disk, cur, available_features, X, y, features, top_n, rules,
                   dirs, files>>

\* export_model_for_js(model, feature_names, f"{output_dir}/<cur>_model")
Export ==
    /\ pc = "export"
    /\ LET dir    == OutputDir(cur)
           r      == extract_top_rules(model, feature_names, ExportTopN)
           f1     == Write(files, <<dir, "insider_model.joblib">>, model)
           f2     == Write(f1, <<dir, "model_info.json">>, ModelInfo(model, feature_names))
           f3     == Write(f2, <<dir, "decision_rules.json">>, r)
           called == Append(calls, Event("export_model_for_js", cur))
           log3   == out \o << Line("Saved model", cur, {}),
                               Line("Saved model info", cur, {}),
                               Line("Saved decision rules", cur, {}) >>
       IN  \E o \in OnnxOutcomes(installed) :
             /\ dirs' = dirs \cup {dir}
             /\ top_n' = ExportTopN
             /\ rules' = r
             /\ files' = IF OnnxFileCreated(o) THEN Write(f3, <<dir, OnnxArtifact>>, o) ELSE f3
             /\ CASE o = "saved" ->
                       /\ out' = Append(log3, Line("Saved ONNX model", cur, {}))
                       /\ calls' = Append(called, Event("export:return", cur))
                       /\ pc' = AfterPipeline(cur)
                       /\ exc' = exc
                  [] o # "saved" /\ ExportCatches(o) ->
                       /\ out' = Append(log3, Line("Note: skl2onnx not installed", cur, {}))
                       /\ calls' = Append(called, Event("export:return", cur))
                       /\ pc' = AfterPipeline(cur)
                       /\ exc' = exc
                  [] OTHER ->
                       /\ out' = log3
                       /\ calls' = called
                       /\ Propagate(o, "export_model_for_js")
    /\ UNCHANGED <<argv, installed, disk, cur, available_features, X, y, features, y_train, y_test,
                   scale_pos_weight, model, feature_names>>

\* main(): print("Training complete!")
Banner ==
    /\ pc = "banner"
    /\ out' = Append(out, Line("Training complete", "main", {}))
    /\ pc' = "done"
    /\ UNCHANGED <<argv, installed, disk, cur, available_features, X, y, features, y_train, y_test,
                   scale_pos_weight, model, feature_names, top_n, rules, dirs, files,
                   calls, exc>>

Next ==
    \/ Begin("trades")
    \/ Load
    \/ CheckPositives
    \/ Train
    \/ Export
    \/ Begin("wallets")
    \/ Banner

Spec == Init /\ [][Next]_vars

----------------------------------------------------------------------------
(* train_xgboost on its own: any label vector, no caller in front of it *)

InitWeight ==
    /\ argv = [k \in Pipelines |-> FALSE]
    /\ installed = FALSE
    /\ disk = NoInputs
    /\ pc = "train"
    /\ \E p \in 0..MaxLabels, n \in 0..MaxLabels :
          /\ y = Labels(p, n)
          /\ X = [rows |-> p + n, cols |-> 1]
    /\ available_features = <<"wallet_age_days">>
    /\ features = <<"wallet_age_days">>
    /\ FreshTrainer /\ FreshExporter /\ FreshLog

NextWeight == Train

SpecWeight == InitWeight /\ [][NextWeight]_vars

----------------------------------------------------------------------------
(* extract_top_rules on its own: any fitted model, feature list and top_n *)

\* the columns the feature lists of the bounded rule extraction are drawn from
RuleColumns ==
    {"wallet_age_days", "wallet_total_trades", "trade_size_usd",
     "low_odds_win_rate", "total_trades"}

InitRules ==
    /\ argv = [k \in Pipelines |-> FALSE]
    /\ installed = FALSE
    /\ disk = NoInputs
    /\ pc = "rules"
    /\ \E k \in Pipelines, c \in SUBSET RuleColumns :
          feature_names = AvailableFeatures(PipelineFeatures(k), [columns |-> c])
    /\ \E imp \in [1..Len(feature_names) -> 0..MaxRuleImp] :
          model = [feature_importances_ |-> imp]
    /\ top_n \in 0..MaxTopN
    /\ FreshLoader
    /\ y_train = <<>> /\ y_test = <<>> /\ scale_pos_weight = NoWeight
    /\ rules = <<>> /\ dirs = {} /\ files = NoFiles
    /\ FreshLog

\* rules = extract_top_rules(model, feature_names, top_n)
ExtractRules ==
    /\ pc = "rules"
    /\ rules' = extract_top_rules(model, feature_names, top_n)
    /\ calls' = Append(calls, Event("extract_top_rules", cur))
    /\ pc' = "rules_done"
    /\ UNCHANGED <<argv, installed, disk, cur, available_features, X, y, features,
                   y_train, y_test, scale_pos_weight, model, feature_names, top_n,
                   dirs, files, out, exc>>

NextRules == ExtractRules

SpecRules == InitRules /\ [][NextRules]_vars

----------------------------------------------------------------------------
(* What the claims speak of *)

Called(fn, k) == \E i \in DOMAIN calls : calls[i] = Event(fn, k)

Printed(tag, k) == \E i \in DOMAIN out : out[i][1] = tag /\ out[i][2] = k

Artifact(k, name) == <<OutputDir(k), name>> \in DOMAIN files

HasMandatoryArtifacts(k) == \A name \in MandatoryArtifacts : Artifact(k, name)

Other(k) == IF k = "trades" THEN "wallets" ELSE "trades"

\* the file of pipeline k is a table with the target column
HasLabels(k) == disk[k].kind = "table" /\ Target \in disk[k].columns

\* the input of pipeline k is given, exists and has at least 10 positive labels
Qualifies(k) == PipelineRuns(k) /\ HasLabels(k) /\ disk[k].pos >= MinPositives

\* the input of pipeline k is given, exists and has fewer than 10 positive labels
BelowThreshold(k) == PipelineRuns(k) /\ HasLabels(k) /\ disk[k].pos < MinPositives

Finished == pc \in {"done", "raised"}

Ones(lab) == Cardinality({i \in DOMAIN lab : lab[i] = 1})
Zeros(lab) == Cardinality({i \in DOMAIN lab : lab[i] = 0})

----------------------------------------------------------------------------
\* C1: a pipeline whose data has fewer than 10 positive labels never has
\* train_xgboost or export_model_for_js invoked, and none of its four artifacts
\* nor its output directory is created by the run.
C1_NoTrainingBelowThreshold ==
    \A k \in Pipelines :
        (HasLabels(k) /\ disk[k].pos < MinPositives) =>
            /\ ~Called("train_xgboost", k)
            /\ ~Called("export_model_for_js", k)
            /\ \A name \in MandatoryArtifacts \cup {OnnxArtifact} : ~Artifact(k, name)
            /\ OutputDir(k) \notin dirs

\* the wallets are loaded with 9 positives and skipped at the end of a run that
\* exported the trade model
C1_Witness ==
    /\ pc = "done"
    /\ Called("load:return", "wallets")
    /\ disk["wallets"].pos = MinPositives - 1
    /\ Printed("Not enough positive samples", "wallets")
    /\ HasMandatoryArtifacts("trades")

\* C2: when both inputs are given and exist and exactly one of them has fewer
\* than 10 positives, the other pipeline is loaded, trained and exported and the
\* run ends with the success banner (runs in which the other pipeline's own
\* trainer raised are set aside: those end the run by design).
C2_SkipIsNotFatal ==
    \A k \in Pipelines :
        (/\ Finished
         /\ BelowThreshold(k)
         /\ Qualifies(Other(k))
         /\ exc.raised_in # "train_xgboost") =>
            /\ Called("load:return", Other(k))
            /\ Called("train:return", Other(k))
            /\ Called("export:return", Other(k))
            /\ pc = "done"
            /\ Printed("Training complete", "main")

\* C3: on a table without the target column load_and_preprocess raises
\* ValueError and does nothing further: no feature selection, no
\* missing-feature warning, no return, and the pipeline is never trained or
\* exported.
C3_MissingTargetFails ==
    \A k \in Pipelines :
        (/\ Called("load_and_preprocess", k)
         /\ disk[k].kind = "table"
         /\ Target \notin disk[k].columns) =>
            /\ exc = [type |-> "ValueError", raised_in |-> "load_and_preprocess",
                      pipeline |-> k]
            /\ pc = "raised"
            /\ ~Called("load:select", k)
            /\ ~Called("load:return", k)
            /\ ~Printed("Warning: Missing features", k)
            /\ ~Printed("Loaded", k)
            /\ ~Called("train_xgboost", k)
            /\ ~Called("export_model_for_js", k)
            /\ ~HasMandatoryArtifacts(k)

\* the wallets table has rows but no target column, after the trade model was exported
C3_Witness ==
    /\ exc.type = "ValueError"
    /\ exc.pipeline = "wallets"
    /\ disk["wallets"].neg > 0
    /\ Target \notin disk["wallets"].columns
    /\ Called("export:return", "trades")

\* C4: an exception raised while loading or fitting a pipeline ends the run:
\* that pipeline is never exported, the wallets pipeline is never started
\* after a failure of the trades pipeline, and the banner is never printed.
C4_FailureEndsRun ==
    (exc.type # "none" /\ exc.raised_in \in {"load_and_preprocess", "train_xgboost"}) =>
        /\ pc = "raised"
        /\ ~Called("export_model_for_js", exc.pipeline)
        /\ \A name \in MandatoryArtifacts \cup {OnnxArtifact} : ~Artifact(exc.pipeline, name)
        /\ exc.pipeline = "trades" =>
              /\ ~Printed("header", "wallets")
              /\ ~Called("load_and_preprocess", "wallets")
              /\ ~Called("train_xgboost", "wallets")
        /\ ~Printed("Training complete", "main")

\* fitting the trade model raised while the wallets input was present and qualifying
C4_Witness ==
    /\ exc.type = "XGBoostError"
    /\ exc.pipeline = "trades"
    /\ Qualifies("wallets")
    /\ pc = "raised"

\* C5: whatever the ONNX step of any pipeline does, every pipeline whose
\* input exists and has at least 10 positives ends with its three mandatory
\* artifacts (runs ended by a loader or trainer failure are set aside).
C5_OnnxFailureBlocksNothing ==
    (Finished /\ exc.raised_in \notin {"load_and_preprocess", "train_xgboost"}) =>
        \A k \in Pipelines : Qualifies(k) => HasMandatoryArtifacts(k)

\* C6: without the converter library export_model_for_js returns normally:
\* no insider_model.onnx, the three mandatory artifacts present, the
\* skipped-step notice printed.
C6_MissingConverterIsSkipped ==
    \A k \in Pipelines :
        (~installed /\ Called("export_model_for_js", k)) =>
            /\ Called("export:return", k)
            /\ exc.raised_in # "export_model_for_js"
            /\ ~Artifact(k, OnnxArtifact)
            /\ HasMandatoryArtifacts(k)
            /\ Printed("Note: skl2onnx not installed", k)
            /\ ~Printed("Saved ONNX model", k)

\* both pipelines exported without the converter library and the run completed
C6_Witness ==
    /\ ~installed
    /\ pc = "done"
    /\ Called("export:return", "trades")
    /\ Called("export:return", "wallets")

\* C7: on a table that has the target column and some, not all, of the
\* requested feature columns, load_and_preprocess succeeds and returns the
\* requested list without the missing names, in the requested order.
C7_LoadSucceedsWithMissingFeatures ==
    \A k \in Pipelines :
        (/\ cur = k
         /\ Called("load_and_preprocess", k)
         /\ HasLabels(k)
         /\ \E i \in DOMAIN PipelineFeatures(k) : PipelineFeatures(k)[i] \in disk[k].columns
         /\ \E i \in DOMAIN PipelineFeatures(k) : PipelineFeatures(k)[i] \notin disk[k].columns) =>
            /\ Called("load:return", k)
            /\ exc.raised_in # "load_and_preprocess"
            /\ Printed("Warning: Missing features", k)
            /\ ToSet(features) = ToSet(PipelineFeatures(k)) \cap disk[k].columns
            /\ \A i, j \in DOMAIN features :
                  i < j => \E a, b \in DOMAIN PipelineFeatures(k) :
                              /\ a < b
                              /\ PipelineFeatures(k)[a] = features[i]
                              /\ PipelineFeatures(k)[b] = features[j]

\* C8: model_info.json of a pipeline that exports has as feature_importance
\* keys exactly the feature names passed to the trainer, which are the list the
\* loader returned; the trainer returns the list unchanged and the exporter
\* writes it as 'features', with n_features its length.
C8_ImportanceKeysAreFeatureNames ==
    \A k \in Pipelines :
        Called("export_model_for_js", k) =>
            LET info   == files[<<OutputDir(k), "model_info.json">>]
                loaded == Filter(PipelineFeatures(k), disk[k].columns)
            IN  /\ DOMAIN info.feature_importance = ToSet(loaded)
                /\ info.features = loaded
                /\ info.n_features = Len(loaded)
                /\ cur = k => features = loaded /\ feature_names = features

\* a trade model fitted on two feature columns was exported
C8_Witness ==
    /\ Called("export:return", "trades")
    /\ Artifact("trades", "model_info.json")
    /\ files[<<"trade_model", "model_info.json">>].n_features = 2
    /\ Called("export_model_for_js", "wallets")

\* the importance the model gives feature f of feature_names
ImportanceOf(f) ==
    model.feature_importances_[CHOOSE i \in DOMAIN feature_names : feature_names[i] = f]

\* C9: extract_top_rules returns min(top_n, number of features) entries for
\* distinct features of feature_names, by non-increasing importance, no
\* omitted feature more important than a returned one, each described by the
\* lookup table's text or else by its own name.
C9_TopRules ==
    pc = "rules_done" =>
        /\ Len(rules) = Min(top_n, Len(feature_names))
        /\ \A i \in DOMAIN rules :
              /\ rules[i].feature \in ToSet(feature_names)
              /\ rules[i].importance = ImportanceOf(rules[i].feature)
              /\ rules[i].description =
                    (IF rules[i].feature \in DOMAIN Descriptions
                     THEN Descriptions[rules[i].feature] ELSE rules[i].feature)
        /\ \A i, j \in DOMAIN rules : i # j => rules[i].feature # rules[j].feature
        /\ \A i, j \in DOMAIN rules : i < j => rules[i].importance >= rules[j].importance
        /\ \A f \in ToSet(feature_names) \ {rules[i].feature : i \in DOMAIN rules} :
              \A i \in DOMAIN rules : ImportanceOf(f) <= rules[i].importance

\* three features of distinct importance, the most important last, cut to two
\* rules, one with a table description and one without
C9_Witness ==
    /\ pc = "rules_done"
    /\ Len(feature_names) = 3
    /\ top_n = 2
    /\ model.feature_importances_ = <<0, 1, 2>>
    /\ Len(rules) = 2
    /\ \E i \in DOMAIN rules : rules[i].description # rules[i].feature
    /\ \E i \in DOMAIN rules : rules[i].description = rules[i].feature

\* C10: scale_pos_weight is the training split's negatives over
\* max(positives, 1): of the training split, not of the full data or the test
\* split; never below 0, never a division by zero, and the number of
\* negatives when the split has no positive.
C10_ScalePosWeight ==
    (Called("train_xgboost", cur) /\ exc.type # "ValueError") =>
        LET p == Ones(y_train)
            n == Zeros(y_train)
        IN  /\ Ones(y_train) + Ones(y_test) = Ones(y)
            /\ Zeros(y_train) + Zeros(y_test) = Zeros(y)
            /\ Len(y_test) >= 1
            /\ scale_pos_weight.den >= 1
            /\ scale_pos_weight.num >= 0
            /\ scale_pos_weight.num * Max(p, 1) = n * scale_pos_weight.den
            /\ p = 0 => scale_pos_weight.num = n * scale_pos_weight.den

\* a training split without positives whose weight is its number of negatives
C10_Witness ==
    /\ Called("train_xgboost", cur)
    /\ exc.type = "none"
    /\ Ones(y_train) = 0
    /\ Zeros(y_train) >= 2
    /\ scale_pos_weight.num = Zeros(y_train)
    /\ scale_pos_weight.den = 1

====
